---- MODULE Spec2Model ----
(***************************************************************************)
(* WalkBuddy matching core: the walk_requests / matches / profiles tables  *)
(* of supabase-migration.sql, the plpgsql functions find_walk_buddy and    *)
(* cleanup_expired_requests, and the client services of walkRequest.ts     *)
(* that drive them (createWalkRequest, findMatch, cancelRequest,           *)
(* confirmMeetup).                                                         *)
(*                                                                         *)
(* Store semantics.  Every supabase call is one PostgreSQL transaction at  *)
(* the default READ COMMITTED level.  A single-statement call (insert,     *)
(* update) is atomic.  find_walk_buddy is several statements in one        *)
(* transaction: each statement reads the rows committed when it starts,    *)
(* its UPDATEs take row locks that are held until the function returns,    *)
(* and its writes become visible to others only at that commit.  The       *)
(* variables requests / matches hold the committed rows; the uncommitted   *)
(* writes of a running find_walk_buddy are determined by its position pc   *)
(* and its locals (call, cand).                                            *)
(*                                                                         *)
(* Sessions.  The services run on a client signed in as some user, the     *)
(* auth.uid() of the row level security policies: a table read returns     *)
(* only the rows the policies let that user see, and an UPDATE changes     *)
(* only the rows they let that user update, without an error for the rows  *)
(* it skips.  find_walk_buddy and cleanup_expired_requests are SECURITY    *)
(* DEFINER and see every row.                                              *)
(*                                                                         *)
(* Geometry.  All points lie on one meridian, where calculate_distance is  *)
(* linear in the latitude difference; a latitude is an integer number of   *)
(* 0.05 mile steps along that meridian.  Time is counted in ticks of ten   *)
(* minutes.                                                                *)
(*                                                                         *)
(* Clocks.  created_at is the database's NOW(), the column default;        *)
(* expires_at is computed by the client from its own clock, Date.now().    *)
(* The variable now is the database clock.  In SpecClock a client's clock  *)
(* may differ from it by up to MaxSkew ticks; in every other               *)
(* specification the two clocks agree.                                     *)
(***************************************************************************)
EXTENDS Integers, Sequences, FiniteSets

VARIABLES
    requests,   \* walk_requests rows (committed), id = index
    matches,    \* matches rows (committed), id = index
    profiles,   \* profiles rows, by user id
    reports,    \* reports rows (committed), id = index
    now,        \* the clock, in ticks
    pc,         \* per client: position in its current call
    call,       \* per client: the call's operation and arguments
    cand,       \* per client: find_walk_buddy's v_matched_request_id
    calls,      \* client calls made on existing requests, so far
    response    \* what the step just taken handed back to its caller, if anything

vars == <<requests, matches, profiles, reports, now, pc, call, cand, calls, response>>

\* ---------------------------------------------------------------- bounds
MaxReq == 3          \* walk requests ever created
MaxLifeReq == 2      \* walk requests ever created, in the lifecycle runs
MaxTime == 2         \* the clock stops here (ticks)
MaxCalls == 2        \* findMatch / cancelRequest / confirmMeetup calls ever made
MaxReports == 6      \* reports ever filed
MaxSkew == 1         \* a client clock is at most this far from the database clock (ticks)

\* ------------------------------------------------------------- constants
NULL == 0                           \* SQL NULL / JS null (ids start at 1)
TTL == 1                            \* request lifetime: 10 minutes, one tick
START_MAX == 6                      \* 0.3 mile, in 0.05 mile steps
DEST_MAX == 4                       \* 0.2 mile, in 0.05 mile steps
TRUST_MIN == 50                     \* candidates need trust_score > 50
PENALTY == 10                       \* trust_score lost per report
TRUST_TOP == 100                    \* upper end of the trust_score CHECK
ANALYSIS_MIN == 2                   \* reports needed for a safety analysis

Users == {1, 2, 3}
Clients == {1, 2}                   \* concurrently running client calls

\* CHECK constraint of walk_requests.status
RequestStatusCheck == {"waiting", "matched", "expired", "cancelled"}

\* Routes a client may ask for: [start_lat, dest_lat]
Routes ==
    { [start_lat |-> 0, dest_lat |-> 0],
      [start_lat |-> 6, dest_lat |-> 4],
      [start_lat |-> 8, dest_lat |-> 4] }

SameRoute == { [start_lat |-> 0, dest_lat |-> 0] }

\* Routes around the thresholds: from the first, the second is at exactly
\* 0.3 / 0.2 mile, the third one step beyond in the start, the fourth one
\* step beyond in the destination
GeoRoutes ==
    { [start_lat |-> 0, dest_lat |-> 0],
      [start_lat |-> START_MAX, dest_lat |-> DEST_MAX],
      [start_lat |-> START_MAX + 1, dest_lat |-> DEST_MAX],
      [start_lat |-> START_MAX, dest_lat |-> DEST_MAX + 1] }

\* The users of the geometry runs: both may be matched (trust_score 100, 51)
Walkers == {1, 2}
Solo == {1}

\* Profiles the users may have when the run starts
InitialProfiles ==
    { f \in [Users -> [trust_score : {50, 51, 100}, is_banned : BOOLEAN]] :
        /\ f[1] = [trust_score |-> 100, is_banned |-> FALSE]
        /\ f[2] = [trust_score |-> 51, is_banned |-> FALSE]
        /\ f[3] \in { [trust_score |-> 50, is_banned |-> FALSE],
                      [trust_score |-> 100, is_banned |-> TRUE] } }

RequestIds == 1..Len(requests)
MatchIds == 1..Len(matches)

\* --------------------------------------------------------------- helpers
Abs(x) == IF x < 0 THEN -x ELSE x

\* Haversine distance of two points of the same meridian: r * |dlat|
calculate_distance(lat1, lat2) == Abs(lat2 - lat1)

\* Rows locked by the uncommitted find_walk_buddy transaction of client p
LockedRows(p) ==
    IF pc[p] = "fwb_update2" THEN {call[p].req} ELSE {}

\* A new call runs in the first free client slot
FreeSlot(p) == pc[p] = "idle" /\ \A q \in Clients : q < p => pc[q] # "idle"

LockedByOther(p, r) == \E q \in Clients \ {p} : r \in LockedRows(q)
Locked(r) == \E q \in Clients : r \in LockedRows(q)

NoCall == [op |-> "none", req |-> NULL, start_lat |-> 0, dest_lat |-> 0]
NoResponse == [op |-> "none", req |-> NULL, kind |-> "none", value |-> NULL]

\* The call c returns v to its caller / throws
Returned(c, v) == [op |-> c.op, req |-> c.req, kind |-> "returned", value |-> v]
Threw(c) == [op |-> c.op, req |-> c.req, kind |-> "threw", value |-> NULL]

\* The call c throws the error e of the service's own checks:
\* "FetchFailed", "Unauthorized", "InvalidState" or "UpdateFailed"
ThrewError(c, e) == [op |-> c.op, req |-> c.req, kind |-> e, value |-> NULL]

\* --------------------------------------------------- row level security
\* walk_requests FOR SELECT: the owner's and the matched partner's session
CanSelectRequest(s, r) == requests[r].user_id = s \/ requests[r].matched_with = s

\* walk_requests FOR UPDATE: the owner's session
CanUpdateRequest(s, r) == requests[r].user_id = s

\* matches FOR SELECT: the sessions of the owners of its two requests
CanSelectMatch(s, m) ==
    \/ requests[matches[m].request_1].user_id = s
    \/ requests[matches[m].request_2].user_id = s

\* matches has no policy FOR UPDATE: no session may update a row
CanUpdateMatch(s, m) == FALSE

\* profiles FOR SELECT and FOR UPDATE: the user's own session
CanSelectProfile(s, u) == s = u
CanUpdateProfile(s, u) == s = u

\* reports FOR INSERT and FOR SELECT: the reporter's session
CanInsertReport(s, reporter) == s = reporter
CanSelectReport(s, i) == reports[i].reporter_id = s

\* ------------------------------------------------------------------ Init
Init ==
    /\ requests = << >>
    /\ matches = << >>
    /\ profiles \in InitialProfiles
    /\ reports = << >>
    /\ now = 0
    /\ pc = [p \in Clients |-> "idle"]
    /\ call = [p \in Clients |-> NoCall]
    /\ cand = [p \in Clients |-> NULL]
    /\ calls = 0
    /\ response = NoResponse

\* ------------------------------------------------------- find_walk_buddy
\* Eligible with the trust threshold taken as inclusive (p.trust_score >= 50)
Eligible_trustInclusive(id, rid, c) ==
    LET wr == requests[id]
        p == profiles[wr.user_id]
        v_user_id == requests[rid].user_id
    IN  /\ wr.status = "waiting"
        /\ id # rid
        /\ wr.user_id # v_user_id
        /\ p.trust_score >= TRUST_MIN
        /\ p.is_banned = FALSE
        /\ calculate_distance(c.start_lat, wr.start_lat) <= START_MAX
        /\ calculate_distance(c.dest_lat, wr.dest_lat) <= DEST_MAX
        /\ wr.expires_at > now

\* Eligible without the condition on is_banned
Eligible_ignoresBan(id, rid, c) ==
    LET wr == requests[id]
        p == profiles[wr.user_id]
        v_user_id == requests[rid].user_id
    IN  /\ wr.status = "waiting"
        /\ id # rid
        /\ wr.user_id # v_user_id
        /\ p.trust_score > TRUST_MIN
        /\ calculate_distance(c.start_lat, wr.start_lat) <= START_MAX
        /\ calculate_distance(c.dest_lat, wr.dest_lat) <= DEST_MAX
        /\ wr.expires_at > now

\* Eligible without the condition on expires_at
Eligible_ignoresExpiry(id, rid, c) ==
    LET wr == requests[id]
        p == profiles[wr.user_id]
        v_user_id == requests[rid].user_id
    IN  /\ wr.status = "waiting"
        /\ id # rid
        /\ wr.user_id # v_user_id
        /\ p.trust_score > TRUST_MIN
        /\ p.is_banned = FALSE
        /\ calculate_distance(c.start_lat, wr.start_lat) <= START_MAX
        /\ calculate_distance(c.dest_lat, wr.dest_lat) <= DEST_MAX

\* Eligible without the condition wr.user_id != v_user_id
Eligible_allowsOwn(id, rid, c) ==
    LET wr == requests[id]
        p == profiles[wr.user_id]
    IN  /\ wr.status = "waiting"
        /\ id # rid
        /\ p.trust_score > TRUST_MIN
        /\ p.is_banned = FALSE
        /\ calculate_distance(c.start_lat, wr.start_lat) <= START_MAX
        /\ calculate_distance(c.dest_lat, wr.dest_lat) <= DEST_MAX
        /\ wr.expires_at > now

\* WHERE clause of the candidate SELECT, for requester row rid and the
\* caller-supplied coordinates c
Eligible(id, rid, c) ==
    LET wr == requests[id]
        p == profiles[wr.user_id]
        v_user_id == requests[rid].user_id
    IN  /\ wr.status = "waiting"
        /\ id # rid
        /\ wr.user_id # v_user_id
        /\ p.trust_score > TRUST_MIN
        /\ p.is_banned = FALSE
        /\ calculate_distance(c.start_lat, wr.start_lat) <= START_MAX
        /\ calculate_distance(c.dest_lat, wr.dest_lat) <= DEST_MAX
        /\ wr.expires_at > now

Candidates(rid, c) == { id \in RequestIds : Eligible(id, rid, c) }

\* ORDER BY start distance LIMIT 1: the rows the SELECT may return
Nearest(rid, c) ==
    { id \in Candidates(rid, c) :
        \A o \in Candidates(rid, c) :
            calculate_distance(c.start_lat, requests[id].start_lat)
                <= calculate_distance(c.start_lat, requests[o].start_lat) }

\* Midpoint of the caller's start and the candidate's stored start
Midpoint(a, b) == (a + b) \div 2

\* FwbSelect with an empty result treated as a failure of the rpc
FwbSelect_throwsOnEmpty(p, c) ==
    /\ IF Candidates(c.req, c) = {}
       THEN /\ pc' = [pc EXCEPT ![p] = "idle"]
            /\ call' = [call EXCEPT ![p] = NoCall]
            /\ cand' = [cand EXCEPT ![p] = NULL]
            /\ response' = Threw(c)
       ELSE /\ \E id \in Nearest(c.req, c) : cand' = [cand EXCEPT ![p] = id]
            /\ pc' = [pc EXCEPT ![p] = "fwb_update1"]
            /\ call' = [call EXCEPT ![p] = c]
            /\ response' = NoResponse
    /\ UNCHANGED <<requests, matches, profiles, reports, now>>

\* The two SELECTs that open the function, run for client p with call c
FwbSelect(p, c) ==
    /\ IF Candidates(c.req, c) = {}
       THEN /\ pc' = [pc EXCEPT ![p] = "idle"]
            /\ call' = [call EXCEPT ![p] = NoCall]
            /\ cand' = [cand EXCEPT ![p] = NULL]
            /\ response' = Returned(c, NULL)
       ELSE /\ \E id \in Nearest(c.req, c) : cand' = [cand EXCEPT ![p] = id]
            /\ pc' = [pc EXCEPT ![p] = "fwb_update1"]
            /\ call' = [call EXCEPT ![p] = c]
            /\ response' = NoResponse
    /\ UNCHANGED <<requests, matches, profiles, reports, now>>

\* createWalkRequest: the insert, on a client whose clock reads clientNow
CreateWalkRequestAt(p, u, rt, clientNow) ==
    /\ FreeSlot(p)
    /\ Len(requests) < MaxReq
    /\ requests' = Append(requests,
          [user_id |-> u, start_lat |-> rt.start_lat, dest_lat |-> rt.dest_lat,
           status |-> "waiting", matched_with |-> NULL,
           created_at |-> now, expires_at |-> clientNow + TTL])
    /\ call' = [call EXCEPT ![p] =
          [op |-> "createWalkRequest", req |-> Len(requests) + 1,
           start_lat |-> rt.start_lat, dest_lat |-> rt.dest_lat]]
    /\ pc' = [pc EXCEPT ![p] = "cwr_findMatch"]
    /\ cand' = [cand EXCEPT ![p] = NULL]
    /\ response' = NoResponse
    /\ UNCHANGED <<matches, profiles, reports, now, calls>>

\* createWalkRequest on a client whose clock agrees with the database
CreateWalkRequest(p, u, rt) == CreateWalkRequestAt(p, u, rt, now)

\* createWalkRequest: its findMatch call reaches find_walk_buddy
CreateFindMatch(p) ==
    /\ pc[p] = "cwr_findMatch"
    /\ UNCHANGED calls
    /\ FwbSelect(p, call[p])

\* findMatch called by a client for an existing request
FindMatch(p, rid, rt) ==
    /\ FreeSlot(p)
    /\ calls < MaxCalls
    /\ calls' = calls + 1
    /\ rid \in RequestIds
    /\ FwbSelect(p, [op |-> "findMatch", req |-> rid,
                     start_lat |-> rt.start_lat, dest_lat |-> rt.dest_lat])

\* UPDATE walk_requests ... WHERE id = p_request_id: takes the row lock
FwbUpdateRequester(p) ==
    /\ pc[p] = "fwb_update1"
    /\ ~LockedByOther(p, call[p].req)
    /\ pc' = [pc EXCEPT ![p] = "fwb_update2"]
    /\ response' = NoResponse
    /\ UNCHANGED <<requests, matches, profiles, reports, now, call, cand, calls>>

\* MatchedRows with the two matched_with values swapped
MatchedRows_ownUser(p) ==
    LET rid == call[p].req
        cid == cand[p]
    IN [requests EXCEPT
          ![rid].status = "matched",
          ![rid].matched_with = requests[rid].user_id,
          ![cid].status = "matched",
          ![cid].matched_with = requests[cid].user_id]

\* The rows after both UPDATEs of client p
MatchedRows(p) ==
    LET rid == call[p].req
        cid == cand[p]
    IN [requests EXCEPT
          ![rid].status = "matched",
          ![rid].matched_with = requests[cid].user_id,
          ![cid].status = "matched",
          ![cid].matched_with = requests[rid].user_id]

\* The row of the INSERT INTO matches of client p
MatchRow(p) ==
    [request_1 |-> call[p].req, request_2 |-> cand[p],
     meetup_lat |-> Midpoint(call[p].start_lat, requests[cand[p]].start_lat),
     status |-> "pending"]

\* UPDATE ... WHERE id = v_matched_request_id, INSERT INTO matches, RETURN:
\* once the candidate's row lock is free nothing can stop the function, and
\* its writes become visible together when it returns
FwbCommit(p) ==
    /\ pc[p] = "fwb_update2"
    /\ ~LockedByOther(p, cand[p])
    /\ requests' = MatchedRows(p)
    /\ matches' = Append(matches, MatchRow(p))
    /\ pc' = [pc EXCEPT ![p] = "idle"]
    /\ response' = Returned(call[p], cand[p])
    /\ call' = [call EXCEPT ![p] = NoCall]
    /\ cand' = [cand EXCEPT ![p] = NULL]
    /\ UNCHANGED <<profiles, reports, now, calls>>

\* Client p waits for a row lock that client q holds
WaitsFor(p, q) ==
    /\ p # q
    /\ \/ pc[p] = "fwb_update1" /\ call[p].req \in LockedRows(q)
       \/ pc[p] = "fwb_update2" /\ cand[p] \in LockedRows(q)

RECURSIVE WaitsForChain(_, _, _)
WaitsForChain(p, q, n) ==
    \/ WaitsFor(p, q)
    \/ /\ n > 0
       /\ \E m \in Clients : WaitsFor(p, m) /\ WaitsForChain(m, q, n - 1)

Deadlocked(p) == \E q \in Clients : WaitsFor(p, q) /\ WaitsForChain(q, p, Cardinality(Clients))

\* PostgreSQL's deadlock detector aborts a transaction of a wait cycle: its
\* writes are rolled back, its locks released, and the rpc returns an error
\* that findMatch (and createWalkRequest) rethrow
FwbDeadlockAbort(p) ==
    /\ Deadlocked(p)
    /\ pc' = [pc EXCEPT ![p] = "idle"]
    /\ response' = Threw(call[p])
    /\ call' = [call EXCEPT ![p] = NoCall]
    /\ cand' = [cand EXCEPT ![p] = NULL]
    /\ UNCHANGED <<requests, matches, profiles, reports, now, calls>>

\* ----------------------------------------------------------- cancelRequest
\* Called in the session of user s.  The fetch fails when the row is hidden
\* from s; the ownership check reads only user_id, which never changes; the
\* UPDATE waits for a row lock and skips a row that s may not update
cancelRequest(s, rid, u) ==
    /\ rid \in RequestIds
    /\ calls < MaxCalls
    /\ calls' = calls + 1
    /\ ~Locked(rid)
    /\ LET c == [op |-> "cancelRequest", req |-> rid]
       IN IF ~CanSelectRequest(s, rid)
          THEN /\ UNCHANGED requests
               /\ response' = ThrewError(c, "FetchFailed")
          ELSE IF requests[rid].user_id # u
          THEN /\ UNCHANGED requests
               /\ response' = ThrewError(c, "Unauthorized")
          ELSE /\ requests' = IF CanUpdateRequest(s, rid)
                              THEN [requests EXCEPT ![rid].status = "cancelled"]
                              ELSE requests
               /\ response' = Returned(c, NULL)
    /\ UNCHANGED <<matches, profiles, reports, now, pc, call, cand>>

\* ----------------------------------------------------------- confirmMeetup
\* The fetch of user_id and status in the session of user s, and the checks
\* on them
ConfirmMeetupFetch(p, s, rid, u) ==
    /\ FreeSlot(p)
    /\ calls < MaxCalls
    /\ calls' = calls + 1
    /\ rid \in RequestIds
    /\ LET c == [op |-> "confirmMeetup", req |-> rid, start_lat |-> 0, dest_lat |-> 0,
                 auth |-> s]
       IN IF ~CanSelectRequest(s, rid)
          THEN /\ response' = ThrewError(c, "FetchFailed")
               /\ UNCHANGED <<pc, call>>
          ELSE IF requests[rid].user_id # u
          THEN /\ response' = ThrewError(c, "Unauthorized")
               /\ UNCHANGED <<pc, call>>
          ELSE IF requests[rid].status # "matched"
          THEN /\ response' = ThrewError(c, "InvalidState")
               /\ UNCHANGED <<pc, call>>
          ELSE /\ pc' = [pc EXCEPT ![p] = "cm_update"]
               /\ call' = [call EXCEPT ![p] = c]
               /\ response' = NoResponse
    /\ UNCHANGED <<requests, matches, profiles, reports, now, cand>>

\* The match rows .or(request_1.eq.rid, request_2.eq.rid) finds
MatchesOf(rid) ==
    { m \in MatchIds : matches[m].request_1 = rid \/ matches[m].request_2 = rid }

\* The matches after update({status: st}).eq('id', m) in the session of s
MatchStatusUpdate(s, m, st) ==
    IF CanUpdateMatch(s, m) THEN [matches EXCEPT ![m].status = st] ELSE matches

\* The matches after confirmMeetup's lookup (.single(): exactly one visible
\* row, or a warning and nothing more) and update to active
ConfirmMeetupMatch(s, rid) ==
    LET found == { m \in MatchesOf(rid) : CanSelectMatch(s, m) }
    IN  IF Cardinality(found) = 1
        THEN MatchStatusUpdate(s, CHOOSE m \in found : TRUE, "active")
        ELSE matches

\* update({status: 'completed'}) and what follows.  A row that the session
\* may not update is skipped without an error; otherwise the row's CHECK
\* constraint decides whether the write is accepted.
ConfirmMeetupUpdate(p) ==
    /\ pc[p] = "cm_update"
    /\ ~LockedByOther(p, call[p].req)
    /\ IF ~CanUpdateRequest(call[p].auth, call[p].req)
       THEN /\ UNCHANGED requests
            /\ matches' = ConfirmMeetupMatch(call[p].auth, call[p].req)
            /\ response' = Returned(call[p], NULL)
       ELSE IF "completed" \in RequestStatusCheck
       THEN /\ requests' = [requests EXCEPT ![call[p].req].status = "completed"]
            /\ matches' = ConfirmMeetupMatch(call[p].auth, call[p].req)
            /\ response' = Returned(call[p], NULL)
       ELSE /\ UNCHANGED <<requests, matches>>
            /\ response' = ThrewError(call[p], "UpdateFailed")
    /\ pc' = [pc EXCEPT ![p] = "idle"]
    /\ call' = [call EXCEPT ![p] = NoCall]
    /\ UNCHANGED <<profiles, reports, now, cand, calls>>

\* ------------------------------------------------ completeMatch, cancelMatch
\* The two requests of match m that the session of s can read
VisibleRequestsOf(s, m) ==
    { r \in {matches[m].request_1, matches[m].request_2} : CanSelectRequest(s, r) }

\* completeMatch (st = "completed") and cancelMatch (st = "cancelled") in the
\* session of s: fetch the match, fetch its two requests, check that userId
\* owns one of them, update the match
SetMatchStatus(opname, st, s, m, u) ==
    /\ m \in MatchIds
    /\ calls < MaxCalls
    /\ calls' = calls + 1
    /\ LET c == [op |-> opname, req |-> m]
       IN IF ~CanSelectMatch(s, m)
          THEN /\ UNCHANGED matches
               /\ response' = ThrewError(c, "FetchFailed")
          ELSE IF ~\E r \in VisibleRequestsOf(s, m) : requests[r].user_id = u
          THEN /\ UNCHANGED matches
               /\ response' = ThrewError(c, "Unauthorized")
          ELSE /\ matches' = MatchStatusUpdate(s, m, st)
               /\ response' = Returned(c, NULL)
    /\ UNCHANGED <<requests, profiles, reports, now, pc, call, cand>>

completeMatch(s, m, u) == SetMatchStatus("completeMatch", "completed", s, m, u)

cancelMatch(s, m, u) == SetMatchStatus("cancelMatch", "cancelled", s, m, u)

\* ------------------------------------------------------------ submitReport
\* Math.max(0, profile.trust_score - 10)
NewScore(score) == IF score - PENALTY < 0 THEN 0 ELSE score - PENALTY

\* CHECK constraint of profiles.trust_score
TrustScoreCheck(v) == v >= 0 /\ v <= TRUST_TOP

\* StoredScore with neither the floor nor the CHECK
StoredScore_unguarded(old, read) == read - PENALTY

\* The trust_score in the row after the update computed from the score read
\* before: an update that the CHECK rejects leaves the row as it is (its
\* error is not looked at)
StoredScore(old, read) ==
    IF TrustScoreCheck(NewScore(read)) THEN NewScore(read) ELSE old

\* The insert of the report in the session of s, and the rpc call of
\* decrement_trust_score, a function the migration does not define: the rpc
\* fails and the manual update follows
SubmitReport(p, s, reporterId, reportedUserId) ==
    /\ FreeSlot(p)
    /\ Len(reports) < MaxReports
    /\ IF ~CanInsertReport(s, reporterId)
       THEN /\ response' = ThrewError([op |-> "submitReport", req |-> NULL], "InsertFailed")
            /\ UNCHANGED <<reports, pc, call>>
       ELSE /\ reports' = Append(reports,
                  [reporter_id |-> reporterId, reported_user_id |-> reportedUserId])
            /\ pc' = [pc EXCEPT ![p] = "sr_read"]
            /\ call' = [call EXCEPT ![p] =
                  [op |-> "submitReport", req |-> Len(reports) + 1, auth |-> s,
                   reported |-> reportedUserId, trust_score |-> NULL]]
            /\ response' = NoResponse
    /\ UNCHANGED <<requests, matches, profiles, now, cand, calls>>

\* The manual update: select trust_score of the reported user.  Without a
\* visible profile row nothing is updated; the report count that follows is
\* read from the data of a head request, which is null, so no analysis is
\* started and the report is returned
SubmitReportRead(p) ==
    /\ pc[p] = "sr_read"
    /\ IF CanSelectProfile(call[p].auth, call[p].reported)
       THEN /\ call' = [call EXCEPT ![p].trust_score = profiles[call[p].reported].trust_score]
            /\ pc' = [pc EXCEPT ![p] = "sr_write"]
            /\ response' = NoResponse
       ELSE /\ call' = [call EXCEPT ![p] = NoCall]
            /\ pc' = [pc EXCEPT ![p] = "idle"]
            /\ response' = Returned(call[p], call[p].req)
    /\ UNCHANGED <<requests, matches, profiles, reports, now, cand, calls>>

\* The manual update: update trust_score to the new score, then return
SubmitReportWrite(p) ==
    /\ pc[p] = "sr_write"
    /\ profiles' =
          IF CanUpdateProfile(call[p].auth, call[p].reported)
          THEN [profiles EXCEPT ![call[p].reported].trust_score =
                    StoredScore(@, call[p].trust_score)]
          ELSE profiles
    /\ call' = [call EXCEPT ![p] = NoCall]
    /\ pc' = [pc EXCEPT ![p] = "idle"]
    /\ response' = Returned(call[p], call[p].req)
    /\ UNCHANGED <<requests, matches, reports, now, cand, calls>>

\* ------------------------------------------------------- analyzeUserSafety
\* The reports against u that the session of s can read
VisibleReports(s, u) ==
    { i \in 1..Len(reports) : CanSelectReport(s, i) /\ reports[i].reported_user_id = u }

\* What happens after the reports are fetched: no API key ("noKey"), an
\* answer that is not JSON ("invalid"), an analysis with shouldBan false
\* ("keep") or true ("ban")
AnalysisOutcomes == {"noKey", "invalid", "keep", "ban"}

\* analyzeUserSafety awaited inside submitReport's try block: when it throws,
\* the submitReport calls in flight throw too
analyzeUserSafety_awaited(s, u, outcome) ==
    IF Cardinality(VisibleReports(s, u)) >= ANALYSIS_MIN /\ outcome = "invalid"
    THEN /\ response' = Threw([op |-> "submitReport", req |-> NULL])
         /\ pc' = [p \in Clients |->
                      IF pc[p] \in {"sr_read", "sr_write"} THEN "idle" ELSE pc[p]]
         /\ call' = [p \in Clients |->
                      IF pc[p] \in {"sr_read", "sr_write"} THEN NoCall ELSE call[p]]
         /\ UNCHANGED <<requests, matches, profiles, reports, now, cand, calls>>
    ELSE /\ response' = Returned([op |-> "analyzeUserSafety", req |-> u], NULL)
         /\ UNCHANGED <<requests, matches, profiles, reports, now, pc, call, cand, calls>>

\* analyzeUserSafety in the session of s: with fewer than two reports it
\* returns null; a ban sets is_banned and trust_score 0 in the profile row,
\* if the session may update it
analyzeUserSafety(s, u, outcome) ==
    /\ LET c == [op |-> "analyzeUserSafety", req |-> u]
       IN IF Cardinality(VisibleReports(s, u)) < ANALYSIS_MIN \/ outcome = "noKey"
          THEN /\ response' = Returned(c, NULL)
               /\ UNCHANGED profiles
          ELSE IF outcome = "invalid"
          THEN /\ response' = Threw(c)
               /\ UNCHANGED profiles
          ELSE /\ response' = Returned(c, u)
               /\ profiles' =
                     IF outcome = "ban" /\ CanUpdateProfile(s, u)
                     THEN [profiles EXCEPT ![u] = [trust_score |-> 0, is_banned |-> TRUE]]
                     ELSE profiles
    /\ UNCHANGED <<requests, matches, reports, now, pc, call, cand, calls>>

\* ------------------------------------------------ cleanup_expired_requests
\* Overdue with the comparison off by one tick
Overdue_lateByOne ==
    { r \in RequestIds : requests[r].status = "waiting" /\ requests[r].expires_at + 1 < now }

\* Overdue without the status condition
Overdue_anyStatus == { r \in RequestIds : requests[r].expires_at < now }

\* Overdue cut down to its first row
Overdue_oneAtATime ==
    { r \in RequestIds :
        /\ requests[r].status = "waiting" /\ requests[r].expires_at < now
        /\ \A o \in 1..(r - 1) :
              ~(requests[o].status = "waiting" /\ requests[o].expires_at < now) }

\* Overdue of a sweeper that finds nothing
Overdue_nothing == {}

Overdue == { r \in RequestIds : requests[r].status = "waiting" /\ requests[r].expires_at < now }

\* One UPDATE statement; it waits for the row locks of the rows it changes
cleanup_expired_requests ==
    /\ \A r \in Overdue : ~Locked(r)
    /\ requests' = [r \in RequestIds |->
          IF r \in Overdue THEN [requests[r] EXCEPT !.status = "expired"] ELSE requests[r]]
    /\ response' = Returned([op |-> "cleanup_expired_requests", req |-> NULL], NULL)
    /\ UNCHANGED <<matches, profiles, reports, now, pc, call, cand, calls>>

\* ------------------------------------------------------------------ clock
Tick ==
    /\ now < MaxTime
    /\ now' = now + 1
    /\ response' = NoResponse
    /\ UNCHANGED <<requests, matches, profiles, reports, pc, call, cand, calls>>

\* ------------------------------------------------- subscribeToUserMatches
\* A subscription runs in a client slot: pc is "sum_lookup" while the select
\* of the user's request ids is pending, "sum_open" while its realtime
\* channel is open, "sum_nochannel" when the lookup found no request and
\* returned without opening one.  The call record holds the callback's
\* requestIds, whether the unsubscribe function has been called, the ids of
\* the first matches row inserted after the channel was opened (since) and
\* of the next one whose change event the channel has not handled yet
\* (next), and the matches rows that onUpdate was invoked with.
Subscribing(p) == pc[p] \in {"sum_lookup", "sum_open", "sum_nochannel"}

\* subscribeToUserMatches(userId, onUpdate) in the session of s: starts the
\* lookup and returns the unsubscribe function at once
SubscribeToUserMatches(p, s, userId) ==
    /\ FreeSlot(p)
    /\ \A q \in Clients : ~Subscribing(q)
    /\ pc' = [pc EXCEPT ![p] = "sum_lookup"]
    /\ call' = [call EXCEPT ![p] =
          [op |-> "subscribeToUserMatches", req |-> NULL, auth |-> s,
           user |-> userId, requestIds |-> {}, unsubscribed |-> FALSE,
           since |-> NULL, next |-> NULL, notified |-> {}]]
    /\ response' = NoResponse
    /\ UNCHANGED <<requests, matches, profiles, reports, now, cand, calls>>

\* The rows select('id').eq('user_id', userId) returns to the session of s
LookupRequestIds(s, userId) ==
    { r \in RequestIds : CanSelectRequest(s, r) /\ requests[r].user_id = userId }

\* The then-callback of the lookup: without rows it returns, otherwise it
\* keeps the ids and opens the channel; it does not look at whether the
\* unsubscribe function has been called meanwhile
LookupResolved(p) ==
    /\ pc[p] = "sum_lookup"
    /\ LET ids == LookupRequestIds(call[p].auth, call[p].user)
       IN IF ids = {}
          THEN /\ pc' = [pc EXCEPT ![p] = "sum_nochannel"]
               /\ call' = call
          ELSE /\ pc' = [pc EXCEPT ![p] = "sum_open"]
               /\ call' = [call EXCEPT ![p].requestIds = ids,
                                       ![p].since = Len(matches) + 1,
                                       ![p].next = Len(matches) + 1]
    /\ response' = NoResponse
    /\ UNCHANGED <<requests, matches, profiles, reports, now, cand, calls>>

\* The callback's test: the match involves one of the ids of the lookup
InvolvesIds(m, ids) == matches[m].request_1 \in ids \/ matches[m].request_2 \in ids

\* The channel handles the change event of the next matches row: the event
\* reaches the client if its session may select the row, and the callback
\* invokes onUpdate if the row involves one of the looked-up ids
ChannelEvent(p) ==
    /\ pc[p] = "sum_open"
    /\ call[p].next \in MatchIds
    /\ LET m == call[p].next
           invoked == CanSelectMatch(call[p].auth, m) /\ InvolvesIds(m, call[p].requestIds)
       IN /\ call' = [call EXCEPT ![p].next = m + 1,
                                  ![p].notified = IF invoked THEN @ \cup {m} ELSE @]
          /\ response' = IF invoked
                         THEN Returned([op |-> "onUpdate", req |-> m], call[p].user)
                         ELSE NoResponse
    /\ UNCHANGED <<requests, matches, profiles, reports, now, pc, cand, calls>>

\* The unsubscribe function: removes the channel if one is assigned,
\* otherwise does nothing
Unsubscribe(p) ==
    /\ Subscribing(p)
    /\ IF pc[p] = "sum_open"
       THEN /\ pc' = [pc EXCEPT ![p] = "idle"]
            /\ call' = [call EXCEPT ![p] = NoCall]
       ELSE /\ ~call[p].unsubscribed
            /\ pc' = pc
            /\ call' = [call EXCEPT ![p].unsubscribed = TRUE]
    /\ response' = NoResponse
    /\ UNCHANGED <<requests, matches, profiles, reports, now, cand, calls>>

\* ------------------------------------------------------------------- Next
Next ==
    \/ \E p \in Clients, u \in Users, rt \in Routes : CreateWalkRequest(p, u, rt)
    \/ \E p \in Clients : CreateFindMatch(p)
    \/ \E p \in Clients, rid \in RequestIds, rt \in Routes : FindMatch(p, rid, rt)
    \/ \E p \in Clients : FwbUpdateRequester(p)
    \/ \E p \in Clients : FwbCommit(p)
    \/ \E p \in Clients : FwbDeadlockAbort(p)
    \/ \E s \in Users, rid \in RequestIds, u \in Users : cancelRequest(s, rid, u)
    \/ \E p \in Clients, s \in Users, rid \in RequestIds, u \in Users :
          ConfirmMeetupFetch(p, s, rid, u)
    \/ \E p \in Clients : ConfirmMeetupUpdate(p)
    \/ \E s \in Users, m \in MatchIds, u \in Users : completeMatch(s, m, u)
    \/ \E s \in Users, m \in MatchIds, u \in Users : cancelMatch(s, m, u)
    \/ \E p \in Clients, s \in Users, a \in Users, b \in Users : SubmitReport(p, s, a, b)
    \/ \E p \in Clients : SubmitReportRead(p)
    \/ \E p \in Clients : SubmitReportWrite(p)
    \/ \E s \in Users, u \in Users, o \in AnalysisOutcomes : analyzeUserSafety(s, u, o)
    \/ \E p \in Clients, s \in Users, u \in Users : SubscribeToUserMatches(p, s, u)
    \/ \E p \in Clients : LookupResolved(p)
    \/ \E p \in Clients : ChannelEvent(p)
    \/ \E p \in Clients : Unsubscribe(p)
    \/ cleanup_expired_requests
    \/ Tick

Spec == Init /\ [][Next]_vars

(***************************************************************************)
(* The state graph of Next is explored in two parts, both with every       *)
(* request on the same route (the distance conditions are then satisfied   *)
(* by every pair of requests).                                             *)
(***************************************************************************)

\* Concurrent matching: two clients create requests and retry matches
NextRace ==
    \/ \E p \in Clients, u \in Users, rt \in SameRoute : CreateWalkRequest(p, u, rt)
    \/ \E p \in Clients : CreateFindMatch(p)
    \/ \E p \in Clients, rid \in RequestIds, rt \in SameRoute : FindMatch(p, rid, rt)
    \/ \E p \in Clients : FwbUpdateRequester(p)
    \/ \E p \in Clients : FwbCommit(p)
    \/ \E p \in Clients : FwbDeadlockAbort(p)

SpecRace == Init /\ [][NextRace]_vars

\* Request lifecycle: one client call in flight at a time, run against
\* cancellations, the sweeper and the clock; every caller passes the id of
\* the user it is signed in as
NextLife ==
    \/ \E p \in Solo, u \in Users, rt \in SameRoute :
          Len(requests) < MaxLifeReq /\ CreateWalkRequest(p, u, rt)
    \/ \E p \in Solo : CreateFindMatch(p)
    \/ \E p \in Solo, rid \in RequestIds, rt \in SameRoute : FindMatch(p, rid, rt)
    \/ \E p \in Solo : FwbUpdateRequester(p)
    \/ \E p \in Solo : FwbCommit(p)
    \/ \E rid \in RequestIds, u \in Users : cancelRequest(u, rid, u)
    \/ \E p \in Solo, rid \in RequestIds, u \in Users : ConfirmMeetupFetch(p, u, rid, u)
    \/ \E p \in Solo : ConfirmMeetupUpdate(p)
    \/ cleanup_expired_requests
    \/ Tick

\* The lifecycle runs start with user 3 not banned (trust_score 50)
InitLife == Init /\ ~profiles[3].is_banned

SpecLife == InitLife /\ [][NextLife]_vars

\* Access control: one client call in flight at a time; requests are created
\* and matched, and then cancelled, confirmed, completed from any session and
\* with any userId
NextAccess ==
    \/ \E p \in Solo, u \in Users, rt \in SameRoute :
          Len(requests) < MaxLifeReq /\ CreateWalkRequest(p, u, rt)
    \/ \E p \in Solo : CreateFindMatch(p)
    \/ \E p \in Solo : FwbUpdateRequester(p)
    \/ \E p \in Solo : FwbCommit(p)
    \/ \E s \in Users, rid \in RequestIds, u \in Users : cancelRequest(s, rid, u)
    \/ \E p \in Solo, s \in Users, rid \in RequestIds, u \in Users :
          ConfirmMeetupFetch(p, s, rid, u)
    \/ \E p \in Solo : ConfirmMeetupUpdate(p)
    \/ \E s \in Users, m \in MatchIds, u \in Users : completeMatch(s, m, u)
    \/ \E s \in Users, m \in MatchIds, u \in Users : cancelMatch(s, m, u)

SpecAccess == Init /\ [][NextAccess]_vars

\* Trust: reports against one user, filed and analysed concurrently from the
\* sessions of that user and of another one
Reporters == {1, 2}
Reported == {2}

NextTrust ==
    \/ \E p \in Clients, s \in Reporters, a \in Reporters, b \in Reported :
          SubmitReport(p, s, a, b)
    \/ \E p \in Clients : SubmitReportRead(p)
    \/ \E p \in Clients : SubmitReportWrite(p)
    \/ \E s \in Reporters, u \in Reported, o \in AnalysisOutcomes :
          analyzeUserSafety(s, u, o)

SpecTrust == Init /\ [][NextTrust]_vars

\* The same runs started with nobody banned: every ban is one that
\* analyzeUserSafety wrote
SpecTrustUnbanned == InitLife /\ [][NextTrust]_vars

\* Progress: requests are created while the clock can still pass their
\* deadline; the clock advances, the sweeper is run again and again, and a
\* find_walk_buddy transaction that has started runs to its end
NextLive ==
    \/ \E p \in Solo, u \in Users, rt \in SameRoute :
          /\ Len(requests) < MaxLifeReq
          /\ now + TTL < MaxTime
          /\ CreateWalkRequest(p, u, rt)
    \/ \E p \in Solo : CreateFindMatch(p)
    \/ \E p \in Solo : FwbUpdateRequester(p)
    \/ \E p \in Solo : FwbCommit(p)
    \/ \E rid \in RequestIds, u \in Users : cancelRequest(u, rid, u)
    \/ cleanup_expired_requests
    \/ Tick

SpecLive ==
    /\ InitLife
    /\ [][NextLive]_vars
    /\ WF_vars(Tick)
    /\ WF_vars(cleanup_expired_requests)
    /\ \A p \in Solo : WF_vars(FwbUpdateRequester(p)) /\ WF_vars(FwbCommit(p))

\* Geometry: one client call in flight at a time; requests on routes around
\* the thresholds, and findMatch called with any of these routes' coordinates
NextGeo ==
    \/ \E p \in Solo, u \in Walkers, rt \in GeoRoutes : CreateWalkRequest(p, u, rt)
    \/ \E p \in Solo : CreateFindMatch(p)
    \/ \E p \in Solo, rid \in RequestIds, rt \in GeoRoutes : FindMatch(p, rid, rt)
    \/ \E p \in Solo : FwbUpdateRequester(p)
    \/ \E p \in Solo : FwbCommit(p)

SpecGeo == InitLife /\ [][NextGeo]_vars

\* Subscriptions: a user subscribes to their matches in their own session
\* while requests are created and matched
NextSub ==
    \/ \E p \in Clients, u \in Walkers, rt \in SameRoute : CreateWalkRequest(p, u, rt)
    \/ \E p \in Clients : CreateFindMatch(p)
    \/ \E p \in Clients : FwbUpdateRequester(p)
    \/ \E p \in Clients : FwbCommit(p)
    \/ \E p \in Clients : FwbDeadlockAbort(p)
    \/ \E p \in Clients, u \in Walkers : SubscribeToUserMatches(p, u, u)
    \/ \E p \in Clients : LookupResolved(p)
    \/ \E p \in Clients : ChannelEvent(p)
    \/ \E p \in Clients : Unsubscribe(p)

SpecSub == InitLife /\ [][NextSub]_vars

\* What a client's clock may read when the database clock reads t
ClientClocks(t) == { c \in (t - MaxSkew)..(t + MaxSkew) : c >= 0 }

\* Clocks: requests are created by clients whose clocks may be off
NextClock ==
    \/ \E p \in Solo, u \in Users, rt \in SameRoute, c \in ClientClocks(now) :
          /\ Len(requests) < MaxLifeReq
          /\ CreateWalkRequestAt(p, u, rt, c)
    \/ \E p \in Solo : CreateFindMatch(p)
    \/ \E p \in Solo : FwbUpdateRequester(p)
    \/ \E p \in Solo : FwbCommit(p)
    \/ \E rid \in RequestIds, u \in Users : cancelRequest(u, rid, u)
    \/ cleanup_expired_requests
    \/ Tick

SpecClock == InitLife /\ [][NextClock]_vars

\* Bans and matching: one client call in flight at a time; user 2 files
\* reports against themself and is analysed in their own session (the only
\* session whose analysis can see those reports and write the ban), while
\* requests are created and matched
Banned == {2}

NextBan ==
    \/ \E p \in Solo, u \in Users, rt \in SameRoute :
          Len(requests) < MaxLifeReq /\ CreateWalkRequest(p, u, rt)
    \/ \E p \in Solo : CreateFindMatch(p)
    \/ \E p \in Solo, rid \in RequestIds, rt \in SameRoute : FindMatch(p, rid, rt)
    \/ \E p \in Solo : FwbUpdateRequester(p)
    \/ \E p \in Solo : FwbCommit(p)
    \/ \E p \in Solo, u \in Banned :
          Len(reports) < ANALYSIS_MIN /\ SubmitReport(p, u, u, u)
    \/ \E p \in Solo : SubmitReportRead(p)
    \/ \E p \in Solo : SubmitReportWrite(p)
    \/ \E u \in Banned, o \in AnalysisOutcomes : analyzeUserSafety(u, u, o)

SpecBan == Init /\ [][NextBan]_vars

(***************************************************************************)
(*                              Properties                                 *)
(***************************************************************************)

\* Client p's find_walk_buddy returns a matched request id in this step
FwbReturnsMatch(p) ==
    /\ pc[p] = "fwb_update2"
    /\ pc'[p] = "idle"
    /\ response'.kind = "returned"

\* The response is createWalkRequest's, with matchFound = true
CreateReportsMatch ==
    /\ response.op = "createWalkRequest"
    /\ response.kind = "returned"
    /\ response.value # NULL

\* C1: no walk request is ever referenced by more than one Match record,
\* whatever the interleaving of createWalkRequest / findMatch invocations.
C1_AtMostOneMatchPerRequest ==
    \A r \in RequestIds : Cardinality(MatchesOf(r)) <= 1

\* C2: two requesters that race for the same waiting candidate are never both
\* paired with it: no two Match records of different requesters (request_1)
\* name the same candidate (request_2).
C2_OneRequesterPerCandidate ==
    \A m1, m2 \in MatchIds :
        matches[m1].request_2 = matches[m2].request_2
            => matches[m1].request_1 = matches[m2].request_1

\* C3: whenever a Match record is created, the requester and the selected
\* candidate both have status waiting at that moment.
C3_MatchOnlyFromWaiting ==
    [][ Len(matches') > Len(matches) =>
          LET m == matches'[Len(matches')]
          IN  /\ requests[m.request_1].status = "waiting"
              /\ requests[m.request_2].status = "waiting" ]_vars

\* C4: once a walk request is completed, expired or cancelled, no operation
\* ever changes its status again.
C4_TerminalIsFinal ==
    [][ \A r \in RequestIds :
          requests[r].status \in {"completed", "expired", "cancelled"}
              => requests'[r].status = requests[r].status ]_vars

\* C5: every matched walk request has a non-null matched_with and is
\* referenced by exactly one Match record.
C5_MatchedHasExactlyOneMatch ==
    \A r \in RequestIds :
        requests[r].status = "matched"
            => /\ requests[r].matched_with # NULL
               /\ Cardinality(MatchesOf(r)) = 1

C8_PairedOrConsumedNotBoth ==
    CreateReportsMatch =>
        LET A == response.req
            B == response.value
            AwithB == \E m \in MatchIds :
                         matches[m].request_1 = A /\ matches[m].request_2 = B
            BwithOther == \E m \in MatchesOf(B) :
                             matches[m].request_1 # A /\ matches[m].request_2 # A
        IN  AwithB # BwithOther

\* C9: a candidate selected by find_walk_buddy is owned by a user with
\* trust_score of 51 or more (never 50) who is not banned.
C9_CandidateTrusted ==
    [][ \A p \in Clients :
          cand'[p] # NULL =>
            LET owner == profiles[requests'[cand'[p]].user_id]
            IN  /\ owner.trust_score >= 51
                /\ owner.trust_score # 50
                /\ owner.is_banned = FALSE ]_vars

\* C9 witness: a candidate whose owner has trust_score 51 is selected while a
\* waiting, unexpired request of another user is passed over because its
\* owner has trust_score 50 or is banned
C9_Selected51Skipped50OrBanned ==
    \E p \in Clients :
        /\ cand[p] # NULL
        /\ profiles[requests[cand[p]].user_id].trust_score = 51
        /\ \E o \in RequestIds :
              /\ o # call[p].req /\ o # cand[p]
              /\ requests[o].status = "waiting"
              /\ requests[o].expires_at > now
              /\ requests[o].user_id # requests[call[p].req].user_id
              /\ \/ profiles[requests[o].user_id].trust_score = 50
                 \/ profiles[requests[o].user_id].is_banned

\* C10: a find_walk_buddy whose selected candidate has been claimed by
\* another requester before its own commit does not pair with that candidate:
\* it returns another candidate or no match, and with no match the
\* requester's request is left unchanged.
C10_LostRaceDetected ==
    [][ \A p \in Clients :
          (FwbReturnsMatch(p) /\ requests[cand[p]].status = "matched") =>
            /\ response'.value # cand[p]
            /\ response'.value = NULL
                  => requests'[call[p].req] = requests[call[p].req] ]_vars

\* The arguments of a findMatch call for request rid on route rt
FindMatchCall(rid, rt) ==
    [op |-> "findMatch", req |-> rid, start_lat |-> rt.start_lat, dest_lat |-> rt.dest_lat]

\* C11: when no eligible candidate exists for the requester, the match attempt
\* (of createWalkRequest or of a findMatch call) returns null without an
\* error and leaves every walk request, Match and profile unchanged.
C11_NoCandidateNoChange ==
    [][ /\ \A p \in Clients :
             (CreateFindMatch(p) /\ Candidates(call[p].req, call[p]) = {})
                => /\ response' = Returned(call[p], NULL)
                   /\ pc'[p] = "idle"
                   /\ UNCHANGED <<requests, matches, profiles, reports>>
        /\ \A p \in Clients, rid \in RequestIds :
             (FreeSlot(p) /\ calls' # calls /\ rid \in {response'.req, call'[p].req})
             => \A rt \in Routes :
                  (Candidates(rid, FindMatchCall(rid, rt)) = {} /\ FindMatch(p, rid, rt))
                  => /\ response' = Returned(FindMatchCall(rid, rt), NULL)
                     /\ pc'[p] = "idle"
                     /\ UNCHANGED <<requests, matches, profiles, reports>> ]_vars

\* C11 witness: createWalkRequest has just reported matchFound = false and its
\* request is still waiting, while a waiting, unexpired request of another
\* user is there whose owner has trust_score 50 or is banned
C11_StillWaitingBesideUntrusted ==
    /\ response.op = "createWalkRequest"
    /\ response.kind = "returned"
    /\ response.value = NULL
    /\ requests[response.req].status = "waiting"
    /\ \E o \in RequestIds :
          /\ o # response.req
          /\ requests[o].status = "waiting"
          /\ requests[o].expires_at > now
          /\ requests[o].user_id # requests[response.req].user_id
          /\ \/ profiles[requests[o].user_id].trust_score <= TRUST_MIN
             \/ profiles[requests[o].user_id].is_banned

\* The response is that of a run of cleanup_expired_requests
CleanupReturned == response.op = "cleanup_expired_requests"

\* C12: a run of cleanup_expired_requests changes to expired every waiting
\* request whose expires_at has passed (expires_at < now) and changes nothing
\* else: requests that are matched, cancelled, completed or already expired
\* stay as they are even if overdue, and so does every waiting request whose
\* deadline has not passed.
C12_SweepExpiresOverdueWaitingOnly ==
    [][ cleanup_expired_requests =>
          /\ Len(requests') = Len(requests)
          /\ \A r \in RequestIds :
                IF requests[r].status = "waiting" /\ requests[r].expires_at < now
                THEN requests'[r] = [requests[r] EXCEPT !.status = "expired"]
                ELSE requests'[r] = requests[r]
          /\ UNCHANGED <<matches, profiles, reports>> ]_vars

\* C12 witness: a sweep has just expired an overdue waiting request and has
\* left an overdue cancelled or matched request as it was
C12_SweptBesideOverdueTerminal ==
    /\ CleanupReturned
    /\ \E r \in RequestIds :
          /\ requests[r].status = "expired"
          /\ requests[r].expires_at = now - 1
    /\ \E o \in RequestIds :
          /\ requests[o].status \in {"cancelled", "matched"}
          /\ requests[o].expires_at < now

\* C13: a run of cleanup_expired_requests that directly follows another run
\* changes nothing in the store, and no run changes a request that is already
\* expired.
C13_SweepIdempotent ==
    [][ cleanup_expired_requests =>
          /\ CleanupReturned => UNCHANGED <<requests, matches, profiles, reports>>
          /\ \A r \in RequestIds :
                requests[r].status = "expired" => requests'[r] = requests[r] ]_vars

\* C13 witness: a sweep has just run at a time when two requests are expired
\* and no waiting request is overdue, which is the state a second sweep in
\* succession starts from
C13_SweptTwoExpired ==
    /\ CleanupReturned
    /\ Overdue = {}
    /\ \E r, o \in RequestIds :
          /\ r # o
          /\ requests[r].status = "expired"
          /\ requests[o].status = "expired"

\* C14: cancelRequest(requestId, userId) with a userId that does not own the
\* request fails with an Unauthorized error and leaves the store unchanged;
\* called by the owner (signed in, passing the own id) of a waiting or matched
\* request, it leaves that request with status cancelled.
C14_CancelOwnerOnly ==
    [][ \A s \in Users, rid \in RequestIds, u \in Users :
          cancelRequest(s, rid, u) =>
            IF requests[rid].user_id # u
            THEN /\ response'.kind = "Unauthorized"
                 /\ UNCHANGED <<requests, matches, profiles, reports>>
            ELSE (s = u /\ requests[rid].status \in {"waiting", "matched"})
                    => requests'[rid].status = "cancelled" ]_vars

\* C15: when createWalkRequest returns, matchFound is true if and only if the
\* request it created has status matched.
C15_MatchFoundIffMatched ==
    (response.op = "createWalkRequest" /\ response.kind = "returned")
        => (response.value # NULL <=> requests[response.req].status = "matched")

\* C16: confirmMeetup called by the owner of a matched request (signed in as
\* the owner) succeeds and leaves the request completed and its Match active.
C16_ConfirmCompletes ==
    [][ \A p \in Clients :
          ( /\ ConfirmMeetupUpdate(p)
            /\ requests[call[p].req].user_id = call[p].auth
            /\ requests[call[p].req].status = "matched" )
          => /\ response'.kind = "returned"
             /\ requests'[call[p].req].status = "completed"
             /\ \A m \in MatchesOf(call[p].req) : matches'[m].status = "active" ]_vars

\* C17: a request's status becomes completed only from matched, and
\* confirmMeetup by the owner on a request that is not matched fails with an
\* invalid-state error and changes nothing, whether the request is found not
\* matched by the status check or has stopped being matched between the
\* status check and the write.
C17_ConfirmOnlyMatched ==
    [][ /\ \A r \in RequestIds :
             (requests'[r].status = "completed" /\ requests[r].status # "completed")
                => requests[r].status = "matched"
        /\ \A p \in Clients, rid \in RequestIds, u \in Users :
             ( /\ ConfirmMeetupFetch(p, u, rid, u)
               /\ requests[rid].user_id = u
               /\ requests[rid].status # "matched" )
             => /\ response'.kind = "InvalidState"
                /\ UNCHANGED <<requests, matches, profiles, reports>>
        /\ \A p \in Clients :
             ( /\ ConfirmMeetupUpdate(p)
               /\ requests[call[p].req].user_id = call[p].auth
               /\ requests[call[p].req].status # "matched" )
             => /\ response'.kind = "InvalidState"
                /\ UNCHANGED <<requests, matches, profiles, reports>> ]_vars

\* User u owns one of the two requests of match m
PartyOf(u, m) ==
    \/ requests[matches[m].request_1].user_id = u
    \/ requests[matches[m].request_2].user_id = u

\* C18: completeMatch and cancelMatch called with a userId that owns neither
\* of the Match's two requests fail with an Unauthorized error and leave the
\* Match's status unchanged.
C18_MatchPartiesOnly ==
    [][ \A s \in Users, m \in MatchIds, u \in Users :
          ((completeMatch(s, m, u) \/ cancelMatch(s, m, u)) /\ ~PartyOf(u, m))
            => /\ response'.kind = "Unauthorized"
               /\ matches'[m].status = matches[m].status ]_vars

\* C19: every profile's trust_score is an integer in [0,100], whatever the
\* sequence and interleaving of submitReport and analyzeUserSafety calls.
C19_TrustScoreInRange ==
    \A u \in Users :
        /\ profiles[u].trust_score \in Int
        /\ profiles[u].trust_score >= 0
        /\ profiles[u].trust_score <= 100

\* C19 witness: a report has brought a score that was below the penalty to
\* the floor, 0, in the profile of a user who is not banned
C19_ScoreFlooredAtZero ==
    \E u \in Users :
        /\ profiles[u].trust_score = 0
        /\ ~profiles[u].is_banned
        /\ response.op = "submitReport"
        /\ response.kind = "returned"
        /\ reports[response.req].reported_user_id = u

\* The score user u starts with when not banned from the start
InitialScore(u) ==
    LET f == CHOOSE f \in InitialProfiles : ~f[u].is_banned IN f[u].trust_score

\* The reports filed against user u
ReportsAgainst(u) == { i \in 1..Len(reports) : reports[i].reported_user_id = u }

\* C20: when no submitReport call is in flight, a user who was never banned
\* and against whom n reports have been filed has the initial score less 10
\* per report, floored at 0: max(0, s - 10n).
C20_TenPerReport ==
    (\A p \in Clients : pc[p] = "idle") =>
        \A u \in Users :
            ~profiles[u].is_banned =>
                LET n == Cardinality(ReportsAgainst(u))
                    s == InitialScore(u)
                IN  profiles[u].trust_score = IF s - 10 * n < 0 THEN 0 ELSE s - 10 * n

\* C22: a request created by a user who is banned or whose trust_score is not
\* above 50 is never paired in a Match as the requester.
C22_RequesterEligible ==
    \A m \in MatchIds :
        LET owner == profiles[requests[matches[m].request_1].user_id]
        IN  owner.trust_score > 50 /\ ~owner.is_banned

\* C21: a profile's is_banned never goes from true to false, and no
\* find_walk_buddy selects as its candidate a request whose owner is banned
\* at that moment.
C21_BanIsPermanent ==
    [][ /\ \A u \in Users : profiles[u].is_banned => profiles'[u].is_banned
        /\ \A p \in Clients :
              (cand'[p] # NULL /\ cand[p] = NULL)
                 => ~profiles[requests[cand'[p]].user_id].is_banned ]_vars

\* C21 witness: a user banned by an analysis owns a waiting, unexpired
\* request, and a match attempt of another user has just returned no match
C21_BannedPassedOver ==
    \E r \in RequestIds :
        /\ profiles[requests[r].user_id].is_banned
        /\ requests[r].user_id \in Banned
        /\ requests[r].status = "waiting"
        /\ requests[r].expires_at > now
        /\ response.op \in {"createWalkRequest", "findMatch"}
        /\ response.kind = "returned"
        /\ response.value = NULL
        /\ response.req # r
        /\ requests[response.req].user_id # requests[r].user_id

\* C23: every waiting request eventually leaves the waiting status, when time
\* advances and cleanup_expired_requests is run again and again.
C23_WaitingEventuallyLeaves ==
    \A r \in 1..MaxLifeReq :
        (r \in RequestIds /\ requests[r].status = "waiting")
            ~> (r \in RequestIds /\ requests[r].status # "waiting")

\* C23 witness: the sweeper has just run, a request that nobody matched or
\* cancelled has been expired by it, and no request is waiting any more
C23_LastWaitingSwept ==
    /\ CleanupReturned
    /\ \E r \in RequestIds : requests[r].status = "expired"
    /\ \A r \in RequestIds : requests[r].status # "waiting"

\* C24: every walk request's expires_at is its created_at plus the TTL
\* (that no operation changes either column afterwards is not at issue).
C24_DeadlineIsCreationPlusTTL ==
    \A r \in RequestIds : requests[r].expires_at = requests[r].created_at + TTL

\* C25: the two requests of every Match are within the thresholds of each
\* other, start points at most 0.3 mile and destinations at most 0.2 mile
\* apart: a candidate farther than that from the requester is never selected.
C25_MatchedWithinThresholds ==
    \A m \in MatchIds :
        LET r1 == requests[matches[m].request_1]
            r2 == requests[matches[m].request_2]
        IN  /\ calculate_distance(r1.start_lat, r2.start_lat) <= START_MAX
            /\ calculate_distance(r1.dest_lat, r2.dest_lat) <= DEST_MAX

\* C26: when find_walk_buddy selects a candidate, no other row that passes
\* its filter has a start point strictly nearer to the requester's start.
C26_NearestToRequester ==
    [][ \A p \in Clients :
          (cand'[p] # NULL /\ cand[p] = NULL)
             => LET rid == call'[p].req
                    from == requests[rid].start_lat
                IN  \A o \in Candidates(rid, call'[p]) :
                       calculate_distance(from, requests[cand'[p]].start_lat)
                          <= calculate_distance(from, requests[o].start_lat) ]_vars

\* C29: the meetup point of every Match is the midpoint of the stored start
\* points of its two requests, whether createWalkRequest or a later findMatch
\* call made the match.
C29_MeetupIsMidpointOfStoredStarts ==
    \A m \in MatchIds :
        matches[m].meetup_lat =
            Midpoint(requests[matches[m].request_1].start_lat,
                     requests[matches[m].request_2].start_lat)

\* C27: the request that find_walk_buddy selects has expires_at strictly
\* later than the current time: a request at or past its deadline is never
\* selected, even while the sweeper has not run and it is still waiting.
C27_LapsedNeverSelected ==
    [][ \A p \in Clients :
          (cand'[p] # NULL /\ cand[p] = NULL)
             => requests[cand'[p]].expires_at > now ]_vars

\* C27 witness: a match attempt has just returned null although a request of
\* another user, trusted and not banned, is still waiting on the same route,
\* at or past its deadline and not yet swept
C27_LapsedPassedOver ==
    /\ response.op \in {"createWalkRequest", "findMatch"}
    /\ response.kind = "returned"
    /\ response.value = NULL
    /\ \E o \in RequestIds :
          /\ o # response.req
          /\ requests[o].status = "waiting"
          /\ requests[o].expires_at <= now
          /\ requests[o].user_id # requests[response.req].user_id
          /\ profiles[requests[o].user_id].trust_score > TRUST_MIN
          /\ ~profiles[requests[o].user_id].is_banned

\* C28: the two requests of every Match are distinct and belong to different
\* users, and no matched request has its own user_id as matched_with.
C28_NoSelfMatch ==
    /\ \A m \in MatchIds :
          /\ matches[m].request_1 # matches[m].request_2
          /\ requests[matches[m].request_1].user_id
                # requests[matches[m].request_2].user_id
    /\ \A r \in RequestIds :
          requests[r].status = "matched"
             => requests[r].matched_with # requests[r].user_id

\* C28 witness: a Match was made for a requester whose user had an earlier
\* request, still waiting, which was passed over
C28_PairedPastOwnRequest ==
    \E m \in MatchIds, o \in RequestIds :
        /\ o < matches[m].request_1
        /\ o # matches[m].request_2
        /\ requests[o].user_id = requests[matches[m].request_1].user_id
        /\ requests[o].status = "waiting"

\* A submitReport call of client p has inserted its report and not returned yet
ReportInFlight(p) == pc[p] \in {"sr_read", "sr_write"}

C31_UnsubscribedHasNoChannel ==
    \A p \in Clients :
        (Subscribing(p) /\ call[p].unsubscribed) => pc[p] # "sum_open"

\* The match m involves a walk request owned by user u
InvolvesUser(m, u) ==
    \/ requests[matches[m].request_1].user_id = u
    \/ requests[matches[m].request_2].user_id = u

\* C32: a subscription whose lookup has resolved and whose unsubscribe
\* function has not been called has an open channel, and onUpdate has been
\* invoked for every match whose event the channel has handled and which
\* involves a walk request owned by the subscribed user.
C32_EveryOwnMatchNotified ==
    \A p \in Clients :
        (Subscribing(p) /\ pc[p] # "sum_lookup" /\ ~call[p].unsubscribed)
           => /\ pc[p] = "sum_open"
              /\ \A m \in MatchIds :
                    (call[p].since <= m /\ m < call[p].next /\ InvolvesUser(m, call[p].user))
                       => m \in call[p].notified

\* C33: every Match with status pending or active has both of its requests
\* in status matched or completed, also after cancelRequest on one of them.
C33_LiveMatchHasLiveRequests ==
    \A m \in MatchIds :
        matches[m].status \in {"pending", "active"}
           => \A r \in {matches[m].request_1, matches[m].request_2} :
                 requests[r].status \in {"matched", "completed"}

\* C34: every walk request with status matched is referenced by a Match with
\* status pending or active, and when cancelMatch or completeMatch has
\* returned, no request of its Match is left in status matched.
C34_MatchedHasLiveMatch ==
    /\ \A r \in RequestIds :
          requests[r].status = "matched"
             => \E m \in MatchesOf(r) : matches[m].status \in {"pending", "active"}
    /\ (response.op \in {"cancelMatch", "completeMatch"} /\ response.kind = "returned")
          => \A r \in {matches[response.req].request_1, matches[response.req].request_2} :
                requests[r].status # "matched"

\* No session may update a matches row, and find_walk_buddy only inserts
\* rows with status pending: a Match never leaves pending
MatchesStayPending == \A m \in MatchIds : matches[m].status = "pending"

\* C36: every profile with is_banned = true has trust_score 0, under any
\* interleaving of analyzeUserSafety with submitReport's read-then-write
\* update of the score.
C36_BannedHasZeroScore ==
    \A u \in Users : profiles[u].is_banned => profiles[u].trust_score = 0

\* C37: no step of any interleaving of submitReport and analyzeUserSafety
\* calls increases a profile's trust_score.
C37_ScoreNeverIncreases ==
    [][ \A u \in Users : profiles'[u].trust_score <= profiles[u].trust_score ]_vars

\* C38: when createWalkRequest throws, the walk request that the call
\* inserted is not left in the store as a waiting request.
C38_ThrowLeavesNoWaitingRequest ==
    (response.op = "createWalkRequest" /\ response.kind = "threw")
       => ~(response.req \in RequestIds /\ requests[response.req].status = "waiting")

====
